---- MODULE Spec2Model ----
(***************************************************************************)
(* Ride-pooling batch assignment: the trip feasibility oracle (travel),    *)
(* the RV graph builder (generate_rv_graph), the greedy seeder             *)
(* (greedy_assignment) and the ILP assigner (assignment_ilp).              *)
(***************************************************************************)
EXTENDS Integers, Sequences, FiniteSets, TLC

VARIABLES
    graph,      \* road network: travel_time of every directed edge (0: no edge)
    mode,       \* which entry point this run drives: "travel", "rv" or "assign"
    tcall,      \* arguments of the last call of travel
    tresult,    \* what that call returned
    rv_in,      \* arguments of generate_rv_graph
    rv_edges,   \* edges of rv_graph, in the order they were added
    rv_pc,      \* where generate_rv_graph is: "vr", "rr", "prune" or "done"
    rv_i,       \* index of the vehicle the VR loop is at
    rtv,        \* RTV graph: travel_time of every T-V edge (0: no edge)
    cost_penalty,           \* penalty of an unserved request
    assignment,             \* greedy_assignment: vehicle -> trip
    unassigned_vehicles,    \* greedy_assignment: vehicles still without a trip
    assigned_requests,      \* greedy_assignment: requests served so far
    asg_pc,     \* "greedy": in the loop; "ilp": greedy returned; "done"; "raised"
    solution,   \* what model.optimize() left: status, epsilon = 1, chi = 1
    optimal_assignment,     \* what assignment_ilp returned
    iterations  \* greedy_assignment: passes through the body of the while loop

vars == <<graph, mode, tcall, tresult, rv_in, rv_edges, rv_pc, rv_i, rtv, cost_penalty,
          assignment, unassigned_vehicles, assigned_requests, asg_pc, solution,
          optimal_assignment, iterations>>

travel_vars == <<tcall, tresult>>

rv_vars == <<rv_in, rv_edges, rv_pc, rv_i>>

asg_vars == <<rtv, cost_penalty, assignment, unassigned_vehicles, assigned_requests,
              asg_pc, solution, optimal_assignment, iterations>>

(***************************************************************************)
(* Bounds of the model and program constants.                              *)
(***************************************************************************)
Nodes == {1, 2, 3}

TravelTimes == {1}

MaxOmega == 1

MaxDelay == 1

MaxElapsed == 1

MAX_CAPACITY == 2

\* float("inf"): the cost of "no trip"
Inf == -1

\* nx.NetworkXNoPath: no path between two nodes
NoPath == -2

\* Python's None, and the empty trip
None == <<>>

(***************************************************************************)
(* Road network: nx.shortest_path_length(graph, u, v, weight=travel_time). *)
(***************************************************************************)
Edges == {e \in Nodes \X Nodes : e[1] # e[2]}

\* every directed edge is missing (0) or has one of the travel times
RoadGraphs == [Edges -> {0} \cup TravelTimes]

\* a + b over path lengths, NoPath when either leg is missing
PathAdd(a, b) == IF a = NoPath \/ b = NoPath THEN NoPath ELSE a + b

PathMin(a, b) ==
    IF a = NoPath THEN b
    ELSE IF b = NoPath THEN a
    ELSE IF a <= b THEN a ELSE b

RECURSIVE Relax(_, _)
Relax(d, K) ==
    IF K = {} THEN d
    ELSE LET k == CHOOSE x \in K : \A y \in K : x <= y
             d2 == [p \in Nodes \X Nodes |->
                      PathMin(d[p], PathAdd(d[<<p[1], k>>], d[<<k, p[2]>>]))]
         IN Relax(d2, K \ {k})

\* all-pairs shortest travel times of road graph g
ShortestPaths(g) ==
    Relax([p \in Nodes \X Nodes |->
             IF p[1] = p[2] THEN 0
             ELSE IF g[p] > 0 THEN g[p] ELSE NoPath],
          Nodes)

shortest_path_length(d, source, target) == d[<<source, target>>]

(***************************************************************************)
(* Trip feasibility oracle: travel (road_network.py).                      *)
(* A request is [id, o_r, d_r, t_pl, t_star]: t_pl is t_r^pl, the latest   *)
(* pickup time, t_star is t_r^*, the earliest drop-off time.  A vehicle is *)
(* [id, q_v, t_v, passengers, trip_set].                                   *)
(***************************************************************************)
Stop(type, r) ==
    [type |-> type, node |-> IF type = "pickup" THEN r.o_r ELSE r.d_r, request |-> r]

\* drop-offs of the passengers on board, then pickups, then drop-offs of the new requests
Stops(vehicle, new_requests) ==
    [i \in 1..Len(vehicle.trip_set) |-> Stop("dropoff", vehicle.trip_set[i])]
    \o [i \in 1..Len(new_requests) |-> Stop("pickup", new_requests[i])]
    \o [i \in 1..Len(new_requests) |-> Stop("dropoff", new_requests[i])]

SetMin(S) == CHOOSE x \in S : \A y \in S : x <= y

\* itertools.permutations over positions S: tuples in lexicographic order
RECURSIVE permutations(_)
permutations(S) ==
    IF S = {} THEN << <<>> >>
    ELSE LET RECURSIVE Over(_)
             Over(T) ==
                 IF T = {} THEN <<>>
                 ELSE LET i == SetMin(T)
                          rest == permutations(S \ {i})
                      IN [k \in 1..Len(rest) |-> <<i>> \o rest[k]] \o Over(T \ {i})
         IN Over(S)

\* ScanEmpty with the capacity test off by one
RECURSIVE ScanEmptyOffByOne(_, _, _, _, _, _)
ScanEmptyOffByOne(permutation, i, pickup_seen, dropoffs_made, pickups_made, max_capacity) ==
    IF i > Len(permutation) THEN TRUE
    ELSE LET stop == permutation[i] IN
         IF stop.type = "dropoff"
         THEN IF stop.request.id \notin pickup_seen THEN FALSE
              ELSE ScanEmptyOffByOne(permutation, i + 1, pickup_seen, dropoffs_made + 1,
                                     pickups_made, max_capacity)
         ELSE IF pickups_made + 1 > dropoffs_made + max_capacity + 1 THEN FALSE
              ELSE ScanEmptyOffByOne(permutation, i + 1, pickup_seen \cup {stop.request.id},
                                     dropoffs_made, pickups_made + 1, max_capacity)

\* the loop of is_valid_permutation for an empty vehicle, from stop i on
RECURSIVE ScanEmpty(_, _, _, _, _, _)
ScanEmpty(permutation, i, pickup_seen, dropoffs_made, pickups_made, max_capacity) ==
    IF i > Len(permutation) THEN TRUE
    ELSE LET stop == permutation[i] IN
         IF stop.type = "dropoff"
         THEN IF stop.request.id \notin pickup_seen THEN FALSE
              ELSE ScanEmpty(permutation, i + 1, pickup_seen, dropoffs_made + 1,
                             pickups_made, max_capacity)
         ELSE IF pickups_made + 1 > dropoffs_made + max_capacity THEN FALSE
              ELSE ScanEmpty(permutation, i + 1, pickup_seen \cup {stop.request.id},
                             dropoffs_made, pickups_made + 1, max_capacity)

\* ScanOnboard that accepts every stop order
ScanOnboardNoMinDrops(permutation, i, pickup_seen, dropoffs_made, pickups_made, min_dropoffs_before_new_pickups, onboard) == TRUE

\* ScanOnboard without the test that a drop-off follows its pickup
RECURSIVE ScanOnboardNoPrecedence(_, _, _, _, _, _, _)
ScanOnboardNoPrecedence(permutation, i, pickup_seen, dropoffs_made, pickups_made, min_dropoffs_before_new_pickups, onboard) ==
    IF i > Len(permutation) THEN TRUE
    ELSE LET stop == permutation[i] IN
         IF stop.type = "dropoff"
         THEN ScanOnboardNoPrecedence(permutation, i + 1, pickup_seen, dropoffs_made + 1,
                                      pickups_made, min_dropoffs_before_new_pickups, onboard)
         ELSE IF dropoffs_made < min_dropoffs_before_new_pickups THEN FALSE
              ELSE IF pickups_made + 1 > dropoffs_made + onboard THEN FALSE
              ELSE ScanOnboardNoPrecedence(permutation, i + 1,
                                           pickup_seen \cup {stop.request.id},
                                           dropoffs_made, pickups_made + 1,
                                           min_dropoffs_before_new_pickups, onboard)

\* the loop of is_valid_permutation for a vehicle with passengers, from stop i on
RECURSIVE ScanOnboard(_, _, _, _, _, _, _)
ScanOnboard(permutation, i, pickup_seen, dropoffs_made, pickups_made, min_dropoffs_before_new_pickups, onboard) ==
    IF i > Len(permutation) THEN TRUE
    ELSE LET stop == permutation[i] IN
         IF stop.type = "dropoff"
         THEN IF stop.request.id \notin pickup_seen THEN FALSE
              ELSE ScanOnboard(permutation, i + 1, pickup_seen, dropoffs_made + 1,
                               pickups_made, min_dropoffs_before_new_pickups, onboard)
         ELSE IF dropoffs_made < min_dropoffs_before_new_pickups THEN FALSE
              ELSE IF pickups_made + 1 > dropoffs_made + onboard THEN FALSE
              ELSE ScanOnboard(permutation, i + 1, pickup_seen \cup {stop.request.id},
                               dropoffs_made, pickups_made + 1,
                               min_dropoffs_before_new_pickups, onboard)

Max(a, b) == IF a >= b THEN a ELSE b

is_valid_permutation(permutation, vehicle, new_requests, max_capacity) ==
    IF vehicle.trip_set = <<>>
    THEN ScanEmpty(permutation, 1, {}, 0, 0, max_capacity)
    ELSE ScanOnboard(permutation, 1,
                     {vehicle.trip_set[k].id : k \in 1..Len(vehicle.trip_set)},
                     0, Len(vehicle.trip_set),
                     Max(0, Len(new_requests) - max_capacity + Len(vehicle.trip_set)),
                     Len(vehicle.trip_set))

\* Drive without the deadline test at drop-offs
RECURSIVE DriveNoDropoffDeadline(_, _, _, _, _, _, _)
DriveNoDropoffDeadline(stop_order, i, d, current_time, current_position, total_cost, max_delay) ==
    IF i > Len(stop_order) THEN [valid |-> TRUE, total_cost |-> total_cost]
    ELSE LET stop == stop_order[i]
             travel_time == shortest_path_length(d, current_position, stop.node)
         IN IF travel_time = NoPath THEN [valid |-> FALSE, total_cost |-> total_cost]
            ELSE IF stop.type = "pickup" /\ current_time + travel_time > stop.request.t_pl
            THEN [valid |-> FALSE, total_cost |-> total_cost + travel_time]
            ELSE DriveNoDropoffDeadline(stop_order, i + 1, d, current_time + travel_time,
                                        stop.node, total_cost + travel_time, max_delay)

\* Drive with the arrival times summed in place of the travel times
RECURSIVE DriveSumsArrivals(_, _, _, _, _, _, _)
DriveSumsArrivals(stop_order, i, d, current_time, current_position, total_cost, max_delay) ==
    IF i > Len(stop_order) THEN [valid |-> TRUE, total_cost |-> total_cost]
    ELSE LET stop == stop_order[i]
             travel_time == shortest_path_length(d, current_position, stop.node)
         IN IF travel_time = NoPath THEN [valid |-> FALSE, total_cost |-> total_cost]
            ELSE IF stop.type = "pickup" /\ current_time + travel_time > stop.request.t_pl
            THEN [valid |-> FALSE, total_cost |-> total_cost + current_time + travel_time]
            ELSE IF stop.type = "dropoff"
                    /\ current_time + travel_time > stop.request.t_star + max_delay
            THEN [valid |-> FALSE, total_cost |-> total_cost + current_time + travel_time]
            ELSE DriveSumsArrivals(stop_order, i + 1, d, current_time + travel_time, stop.node,
                       total_cost + current_time + travel_time, max_delay)

\* the inner loop of travel over one stop order, from stop i on: the vehicle is at
\* current_position at current_time and has driven total_cost so far
RECURSIVE Drive(_, _, _, _, _, _, _)
Drive(stop_order, i, d, current_time, current_position, total_cost, max_delay) ==
    IF i > Len(stop_order) THEN [valid |-> TRUE, total_cost |-> total_cost]
    ELSE LET stop == stop_order[i]
             travel_time == shortest_path_length(d, current_position, stop.node)
         IN IF travel_time = NoPath THEN [valid |-> FALSE, total_cost |-> total_cost]
            ELSE IF stop.type = "pickup" /\ current_time + travel_time > stop.request.t_pl
            THEN [valid |-> FALSE, total_cost |-> total_cost + travel_time]
            ELSE IF stop.type = "dropoff"
                    /\ current_time + travel_time > stop.request.t_star + max_delay
            THEN [valid |-> FALSE, total_cost |-> total_cost + travel_time]
            ELSE Drive(stop_order, i + 1, d, current_time + travel_time, stop.node,
                       total_cost + travel_time, max_delay)

\* a < b where b may be float("inf")
CostLess(a, b) == a # Inf /\ (b = Inf \/ a < b)

INFEASIBLE == [trip |-> None, cost |-> Inf]

\* the stop order the k-th permutation stands for
StopOrder(stops, perm) == [j \in 1..Len(stops) |-> stops[perm[j]]]

\* the loop of travel over the valid permutations (lines 113-155): total_cost of each
\* valid stop order that drives within the deadlines, Inf for the others; the loop
\* replaces shortest_trip only on a strictly smaller cost, so it ends with the first
\* stop order of least cost
Search(perms, stops, vehicle, new_requests, d, max_capacity, max_delay) ==
    LET costs == [k \in 1..Len(perms) |->
                    LET stop_order == StopOrder(stops, perms[k]) IN
                    IF ~is_valid_permutation(stop_order, vehicle, new_requests, max_capacity)
                    THEN Inf
                    ELSE LET run == Drive(stop_order, 1, d, vehicle.t_v, vehicle.q_v, 0,
                                          max_delay)
                         IN IF run.valid THEN run.total_cost ELSE Inf]
         found == {k \in 1..Len(perms) : costs[k] # Inf}
    IN IF found = {} THEN INFEASIBLE
       ELSE LET kbest == CHOOSE k \in found :
                            \A j \in found : ~CostLess(costs[j], costs[k])
                                             /\ (costs[j] = costs[k] => k <= j)
            IN [trip |-> StopOrder(stops, perms[kbest]), cost |-> costs[kbest]]

\* travel that treats a call without new requests as infeasible
travelNoPlanKept(vehicle, new_requests, d, max_capacity, max_delay) ==
    IF new_requests = <<>> THEN INFEASIBLE
    ELSE LET stops == Stops(vehicle, new_requests)
             best == Search(permutations(1..Len(stops)), stops, vehicle,
                            new_requests, d, max_capacity, max_delay)
         IN IF best.trip # None THEN best ELSE INFEASIBLE

\* travel(vehicle, new_requests, graph, max_capacity, max_delay); d is the table of
\* shortest travel times of graph
travel(vehicle, new_requests, d, max_capacity, max_delay) ==
    IF new_requests = <<>> /\ vehicle.trip_set = <<>> THEN INFEASIBLE
    ELSE IF new_requests = <<>> THEN [trip |-> vehicle.trip_set, cost |-> 0]
    ELSE LET stops == Stops(vehicle, new_requests)
             best == Search(permutations(1..Len(stops)), stops, vehicle,
                            new_requests, d, max_capacity, max_delay)
         IN IF best.trip # None THEN best ELSE INFEASIBLE

(***************************************************************************)
(* The vehicles and requests the entry points are called with              *)
(* (agents/generator.py).  Requests are placed at time 0 and share the     *)
(* waiting time omega; a passenger on board was picked up at the vehicle's *)
(* node some time (elapsed) before.                                        *)
(***************************************************************************)
\* generate_requests: origin # destination, destination reachable, travel_time > 0
NewRequests(d, id, omega) ==
    {[id |-> id, o_r |-> p[1], d_r |-> p[2], t_pl |-> 0 + omega, t_star |-> 0 + d[p]] :
        p \in {x \in Nodes \X Nodes : x[1] # x[2] /\ d[x] # NoPath /\ d[x] > 0}}

\* generate_requests_for_vehicle: the first passenger's origin is the vehicle's node
OnboardRequests(d, vehicle_node, omega) ==
    {[id |-> "r_p1", o_r |-> vehicle_node, d_r |-> x[1],
      t_pl |-> omega - x[2], t_star |-> d[<<vehicle_node, x[1]>>] - x[2]] :
        x \in {y \in Nodes \X (0..MaxElapsed) :
                 y[1] # vehicle_node /\ d[<<vehicle_node, y[1]>>] # NoPath}}

\* initialize_vehicles: t_v = 0, passengers = len(trip_set); no passenger, or one
Vehicles(d, id, positions, omega) ==
    UNION {{[id |-> id, q_v |-> q, t_v |-> 0, passengers |-> Len(ts), trip_set |-> ts] :
               ts \in {<<>>} \cup {<<r>> : r \in OnboardRequests(d, q, omega)}} :
           q \in positions}

\* the lists of new requests travel is called with: one request, or two for a vehicle
\* with no passenger
NewRequestLists(d, vehicle, omega) ==
    {<<r>> : r \in NewRequests(d, "r1", omega)}
    \cup IF vehicle.trip_set # <<>> THEN {}
         ELSE {<<x[1], x[2]>> :
                  x \in NewRequests(d, "r1", omega) \X NewRequests(d, "r2", omega)}

(***************************************************************************)
(* Calls of travel.  The road graphs are all the directed graphs over      *)
(* Nodes, so the vehicle is put at node 1 without loss of generality.      *)
(***************************************************************************)
NoCall == [made |-> FALSE]

InitTravel ==
    /\ graph \in RoadGraphs
    /\ mode = "travel"
    /\ tcall = NoCall
    /\ tresult = INFEASIBLE
    /\ rv_in = NoCall
    /\ rv_edges = <<>>
    /\ rv_pc = "idle"
    /\ rv_i = 0
    /\ rtv = <<>>
    /\ cost_penalty = 0
    /\ assignment = <<>>
    /\ unassigned_vehicles = {}
    /\ assigned_requests = {}
    /\ asg_pc = "idle"
    /\ solution = <<>>
    /\ optimal_assignment = <<>>
    /\ iterations = 0

\* travel with no new request (lines 21-27)
TravelNoRequests ==
    /\ mode = "travel"
    /\ ~tcall.made
    /\ LET d == ShortestPaths(graph) IN
       \E omega \in 0..MaxOmega, max_capacity \in 1..MAX_CAPACITY, max_delay \in 0..MaxDelay :
       \E vehicle \in Vehicles(d, "v1", {1}, omega) :
          /\ tcall' = [made |-> TRUE, vehicle |-> vehicle, new_requests |-> <<>>,
                       max_capacity |-> max_capacity, max_delay |-> max_delay]
          /\ tresult' = travel(vehicle, <<>>, d, max_capacity, max_delay)
    /\ UNCHANGED <<graph, mode, rv_vars, asg_vars>>

\* travel with new requests: the search over the stop orders (lines 29-160)
TravelSearch ==
    /\ mode = "travel"
    /\ ~tcall.made
    /\ LET d == ShortestPaths(graph) IN
       \E omega \in 0..MaxOmega, max_capacity \in 1..MAX_CAPACITY, max_delay \in 0..MaxDelay :
       \E vehicle \in Vehicles(d, "v1", {1}, omega) :
       \E new_requests \in NewRequestLists(d, vehicle, omega) :
          /\ tcall' = [made |-> TRUE, vehicle |-> vehicle, new_requests |-> new_requests,
                       max_capacity |-> max_capacity, max_delay |-> max_delay]
          /\ tresult' = travel(vehicle, new_requests, d, max_capacity, max_delay)
    /\ UNCHANGED <<graph, mode, rv_vars, asg_vars>>

NextTravel == TravelNoRequests \/ TravelSearch

SpecTravel == InitTravel /\ [][NextTravel]_vars

(***************************************************************************)
(* Stop sequences as the specification describes them: the measures the    *)
(* claims about travel are stated in.                                      *)
(***************************************************************************)
TravelCalled == tcall.made /\ tcall.new_requests # <<>>

TravelReturned == TravelCalled /\ tresult.trip # None

IdsOf(requests) == {requests[k].id : k \in 1..Len(requests)}

\* positions of the stops of the given type for request id
StopsAt(seq, type, id) == {i \in 1..Len(seq) : seq[i].type = type /\ seq[i].request.id = id}

CountType(seq, k, type) == Cardinality({i \in 1..k : seq[i].type = type})

\* the load after the k-th stop of seq for a vehicle that starts with onboard passengers
LoadAfter(seq, onboard, k) ==
    onboard + CountType(seq, k, "pickup") - CountType(seq, k, "dropoff")

PrecedenceHolds(seq, new_requests) ==
    \A id \in IdsOf(new_requests) :
        \A i \in StopsAt(seq, "pickup", id), j \in StopsAt(seq, "dropoff", id) : i < j

CapacityHolds(seq, onboard, capacity) ==
    \A k \in 1..Len(seq) : LoadAfter(seq, onboard, k) <= capacity

LegTime(seq, d, vehicle, i) ==
    d[<<IF i = 1 THEN vehicle.q_v ELSE seq[i - 1].node, seq[i].node>>]

AllReachable(seq, d, vehicle) == \A i \in 1..Len(seq) : LegTime(seq, d, vehicle, i) # NoPath

\* arrival time at the i-th stop of a sequence whose legs are all reachable
RECURSIVE ArrivalTime(_, _, _, _)
ArrivalTime(seq, d, vehicle, i) ==
    IF i = 0 THEN vehicle.t_v
    ELSE ArrivalTime(seq, d, vehicle, i - 1) + LegTime(seq, d, vehicle, i)

SequenceCost(seq, d, vehicle) == ArrivalTime(seq, d, vehicle, Len(seq)) - vehicle.t_v

DeadlinesHold(seq, d, vehicle, max_delay) ==
    \A i \in 1..Len(seq) :
        IF seq[i].type = "pickup"
        THEN ArrivalTime(seq, d, vehicle, i) <= seq[i].request.t_pl
        ELSE ArrivalTime(seq, d, vehicle, i) <= seq[i].request.t_star + max_delay

\* every ordering of the stops of a call
Orderings(vehicle, new_requests) ==
    LET stops == Stops(vehicle, new_requests)
        perms == permutations(1..Len(stops))
    IN {StopOrder(stops, perms[k]) : k \in 1..Len(perms)}

\* the orderings that satisfy precedence, the load bound, reachability and the deadlines
FeasibleOrderings(vehicle, new_requests, d, capacity, max_delay) ==
    {seq \in Orderings(vehicle, new_requests) :
        /\ PrecedenceHolds(seq, new_requests)
        /\ CapacityHolds(seq, Len(vehicle.trip_set), capacity)
        /\ AllReachable(seq, d, vehicle)
        /\ DeadlinesHold(seq, d, vehicle, max_delay)}

\* C1: when |O| + |N| <= capacity, travel returns an ordering of least cost among ALL
\* orderings that satisfy precedence, the prefix load bound <= capacity, the deadlines
\* and reachability, and INFEASIBLE only when there is none.
C1_TravelReturnsOptimum ==
    (TravelCalled /\ Len(tcall.vehicle.trip_set) + Len(tcall.new_requests) <= tcall.max_capacity)
    => LET d == ShortestPaths(graph)
           F == FeasibleOrderings(tcall.vehicle, tcall.new_requests, d,
                                  tcall.max_capacity, tcall.max_delay)
       IN IF F = {} THEN tresult = INFEASIBLE
          ELSE /\ tresult.trip \in F
               /\ tresult.cost = SequenceCost(tresult.trip, d, tcall.vehicle)
               /\ \A seq \in F : tresult.cost <= SequenceCost(seq, d, tcall.vehicle)

\* C1 restricted to a vehicle with no passenger
C1_EmptyVehicleOptimum ==
    (tcall.made /\ tcall.vehicle.trip_set # <<>>) \/ C1_TravelReturnsOptimum

\* C2: in every returned sequence each new request has exactly one PICKUP and one
\* DROPOFF, the PICKUP strictly first, and each onboard request has exactly one DROPOFF
\* and no PICKUP.
C2_PickupBeforeDropoff ==
    TravelReturned
    => /\ \A id \in IdsOf(tcall.new_requests) :
             /\ Cardinality(StopsAt(tresult.trip, "pickup", id)) = 1
             /\ Cardinality(StopsAt(tresult.trip, "dropoff", id)) = 1
       /\ PrecedenceHolds(tresult.trip, tcall.new_requests)
       /\ \A id \in IdsOf(tcall.vehicle.trip_set) :
             /\ Cardinality(StopsAt(tresult.trip, "dropoff", id)) = 1
             /\ StopsAt(tresult.trip, "pickup", id) = {}
       /\ Len(tresult.trip) = Len(tcall.vehicle.trip_set) + 2 * Len(tcall.new_requests)

C2_Witness ==
    /\ TravelReturned
    /\ tcall.vehicle.trip_set # <<>>
    /\ tresult.trip[1].type = "dropoff"

\* C3: for |O| <= max_capacity the load |O| + pickups - dropoffs is at most max_capacity
\* after every stop of a returned sequence, for empty and non-empty vehicles.
C3_LoadWithinCapacity ==
    (TravelReturned /\ Len(tcall.vehicle.trip_set) <= tcall.max_capacity)
    => CapacityHolds(tresult.trip, Len(tcall.vehicle.trip_set), tcall.max_capacity)

\* two new requests served one after the other by a vehicle of capacity 1
C3_Witness ==
    /\ TravelReturned
    /\ tcall.max_capacity = 1
    /\ Len(tcall.new_requests) = 2

\* C4: simulated from q_v at t_v, every PICKUP of a returned sequence is reached by
\* t_pl and every DROPOFF by t_star + max_delay.
C4_DeadlinesMet ==
    TravelReturned
    => /\ AllReachable(tresult.trip, ShortestPaths(graph), tcall.vehicle)
       /\ DeadlinesHold(tresult.trip, ShortestPaths(graph), tcall.vehicle, tcall.max_delay)

\* a returned sequence that reaches a drop-off exactly at its deadline
C4_Witness ==
    /\ TravelReturned
    /\ \E i \in 1..Len(tresult.trip) :
          /\ tresult.trip[i].type = "dropoff"
          /\ ArrivalTime(tresult.trip, ShortestPaths(graph), tcall.vehicle, i)
                = tresult.trip[i].request.t_star + tcall.max_delay
          /\ tresult.trip[i].request.t_star + tcall.max_delay > 0

(***************************************************************************)
(* RV graph builder: generate_rv_graph (rv_graph.py).                      *)
(* An edge is [u, v, travel_time, stops, edge_type]; rv_edges keeps the    *)
(* edges in insertion order, as the adjacency of nx.Graph does.            *)
(***************************************************************************)
MaxTopK == 1

\* VREdgesOf without the test of line 90: an edge for every request
VREdgesOfUnchecked(vehicle, requests, d, max_capacity, max_delay) ==
    LET trips == [k \in 1..Len(requests) |->
                    travel(vehicle, <<requests[k]>>, d, max_capacity, max_delay)]
    IN [k \in 1..Len(requests) |->
          [u |-> vehicle.id, v |-> requests[k].id, travel_time |-> trips[k].cost,
           stops |-> trips[k].trip, edge_type |-> "rv"]]

\* the VR edges one vehicle adds (lines 85-93): one per request travel finds a trip for
VREdgesOf(vehicle, requests, d, max_capacity, max_delay) ==
    LET trips == [k \in 1..Len(requests) |->
                    travel(vehicle, <<requests[k]>>, d, max_capacity, max_delay)]
    IN SelectSeq([k \in 1..Len(requests) |->
                    [u |-> vehicle.id, v |-> requests[k].id, travel_time |-> trips[k].cost,
                     stops |-> trips[k].trip, edge_type |-> "rv"]],
                 LAMBDA e : e.stops # None)

\* the test of lines 101-113 for the pair (req1, req2): FALSE when one of the five
\* shortest_path_length calls raises NetworkXNoPath (lines 116-117)
RRCondition(req1, req2, d, current_time, max_delay) ==
    LET max_delay_req1 == req1.t_star + max_delay
        max_delay_req2 == req2.t_star + max_delay
        o1d1 == shortest_path_length(d, req1.o_r, req2.o_r)
        d1o2 == shortest_path_length(d, req1.d_r, req2.o_r)
        o2d2 == shortest_path_length(d, req2.o_r, req2.d_r)
        o1o2 == shortest_path_length(d, req1.o_r, req2.o_r)
        d1d2 == shortest_path_length(d, req1.d_r, req2.d_r)
    IN /\ NoPath \notin {o1d1, d1o2, o2d2, o1o2, d1d2}
       /\ \/ /\ current_time + o1d1 <= max_delay_req1
             /\ current_time + o1d1 + d1o2 <= req2.t_pl
             /\ current_time + o1d1 + d1o2 + o2d2 <= max_delay_req2
          \/ /\ current_time + o1o2 <= req2.t_pl
             /\ current_time + o1o2 + o2d2 <= max_delay_req2
             /\ current_time + o1o2 + o2d2 + d1d2 <= max_delay_req1
          \/ /\ current_time + o1o2 <= req2.t_pl
             /\ current_time + o1o2 + d1o2 <= max_delay_req1
             /\ current_time + o1o2 + d1o2 + d1d2 <= max_delay_req2

\* itertools.combinations(requests, 2): index pairs i < j in lexicographic order
Combinations2(n) ==
    LET RECURSIVE From(_, _)
        From(i, j) ==
            IF i >= n THEN <<>>
            ELSE IF j > n THEN From(i + 1, i + 2)
            ELSE <<<<i, j>>>> \o From(i, j + 1)
    IN From(1, 2)

\* the RR edges of lines 96-117
RREdges(requests, d, current_time, max_delay) ==
    LET pairs == Combinations2(Len(requests))
    IN SelectSeq([k \in 1..Len(pairs) |->
                    LET req1 == requests[pairs[k][1]]
                        req2 == requests[pairs[k][2]]
                    IN [u |-> req1.id, v |-> req2.id,
                        travel_time |-> IF RRCondition(req1, req2, d, current_time, max_delay)
                                        THEN shortest_path_length(d, req1.o_r, req2.o_r)
                                        ELSE NoPath,
                        stops |-> None, edge_type |-> "rr"]],
                 LAMBDA e : e.travel_time # NoPath)

\* the edges of the kind prune_edges looks at for a node (lines 42-48), in adjacency order
OwnEdges(edges, node, is_request) ==
    SelectSeq(edges, LAMBDA e : /\ node \in {e.u, e.v}
                                /\ e.edge_type = IF is_request THEN "rr" ELSE "rv")

\* sorted(edges, key=travel_time): position of the k-th edge in the stable sort
SortedRank(edges, k) ==
    Cardinality({j \in 1..Len(edges) :
                    \/ edges[j].travel_time < edges[k].travel_time
                    \/ edges[j].travel_time = edges[k].travel_time /\ j <= k})

PruneNodeKeepsAll(edges, node, is_request, top_k) == edges

\* one round of the loop of prune_edges (lines 40-60): the edges left after node is seen
PruneNode(edges, node, is_request, top_k) ==
    LET own == OwnEdges(edges, node, is_request)
        drop == {<<own[k].u, own[k].v>> : k \in {j \in 1..Len(own) : SortedRank(own, j) > top_k}}
    IN IF Len(own) > top_k
       THEN SelectSeq(edges, LAMBDA e : <<e.u, e.v>> \notin drop)
       ELSE edges

\* prune_edges (lines 26-62) over the nodes in the order they were added: requests first
RECURSIVE PruneFrom(_, _, _, _)
PruneFrom(edges, nodes, k, top_k) ==
    IF k > Len(nodes) THEN edges
    ELSE PruneFrom(PruneNode(edges, nodes[k].id, nodes[k].is_request, top_k),
                   nodes, k + 1, top_k)

\* rv_graph.nodes: the requests (lines 67-68), then the vehicles (lines 71-72)
RVNodes(vehicles, requests) ==
    [k \in 1..Len(requests) |-> [id |-> requests[k].id, is_request |-> TRUE]]
    \o [k \in 1..Len(vehicles) |-> [id |-> vehicles[k].id, is_request |-> FALSE]]

\* the batches generate_rv_graph is called with: one vehicle and two requests
RVInputs(d) ==
    UNION {{[made |-> TRUE, vehicles |-> <<vehicle>>, requests |-> <<x[1], x[2]>>,
             current_time |-> 0, max_capacity |-> max_capacity, max_delay |-> max_delay] :
               vehicle \in Vehicles(d, "v1", {1}, omega),
               x \in NewRequests(d, "r1", omega) \X NewRequests(d, "r2", omega),
               max_capacity \in 1..MAX_CAPACITY, max_delay \in 0..MaxDelay} :
           omega \in 0..MaxOmega}

InitRV ==
    /\ graph \in RoadGraphs
    /\ mode = "rv"
    /\ tcall = NoCall
    /\ tresult = INFEASIBLE
    /\ rv_in \in RVInputs(ShortestPaths(graph))
    /\ rv_edges = <<>>
    /\ rv_pc = "vr"
    /\ rv_i = 1
    /\ rtv = <<>>
    /\ cost_penalty = 0
    /\ assignment = <<>>
    /\ unassigned_vehicles = {}
    /\ assigned_requests = {}
    /\ asg_pc = "idle"
    /\ solution = <<>>
    /\ optimal_assignment = <<>>
    /\ iterations = 0

\* the VR loop reaches a vehicle without spare capacity (lines 78-81)
SkipFullVehicle ==
    /\ mode = "rv" /\ rv_pc = "vr" /\ rv_i <= Len(rv_in.vehicles)
    /\ rv_in.vehicles[rv_i].passengers >= rv_in.max_capacity
    /\ rv_i' = rv_i + 1
    /\ UNCHANGED <<graph, mode, travel_vars, asg_vars, rv_in, rv_edges, rv_pc>>

\* the VR loop reaches a vehicle with spare capacity (lines 83-93)
AddVREdges ==
    /\ mode = "rv" /\ rv_pc = "vr" /\ rv_i <= Len(rv_in.vehicles)
    /\ rv_in.vehicles[rv_i].passengers < rv_in.max_capacity
    /\ rv_edges' = rv_edges \o VREdgesOf(rv_in.vehicles[rv_i], rv_in.requests,
                                         ShortestPaths(graph), rv_in.max_capacity,
                                         rv_in.max_delay)
    /\ rv_i' = rv_i + 1
    /\ UNCHANGED <<graph, mode, travel_vars, asg_vars, rv_in, rv_pc>>

\* the RR loop (lines 96-117)
AddRREdges ==
    /\ mode = "rv" /\ rv_pc = "vr" /\ rv_i > Len(rv_in.vehicles)
    /\ rv_edges' = rv_edges \o RREdges(rv_in.requests, ShortestPaths(graph),
                                       rv_in.current_time, rv_in.max_delay)
    /\ rv_pc' = "prune"
    /\ UNCHANGED <<graph, mode, travel_vars, asg_vars, rv_in, rv_i>>

\* `if prune_edges:` (line 156): inside generate_rv_graph the name prune_edges is bound
\* to the nested function of line 26, which shadows the parameter of line 6, so the
\* test is true whatever the caller passed
PruneEdgesIsTruthy(prune_edges_argument) == TRUE

\* the end of generate_rv_graph (lines 155-159) for a call with the arguments
\* prune_edges and top_k; the call record keeps the graph as it was at line 155
PruneAndReturn ==
    /\ mode = "rv" /\ rv_pc = "prune"
    /\ \E prune_edges \in BOOLEAN, top_k \in 0..MaxTopK :
          /\ rv_edges' = IF PruneEdgesIsTruthy(prune_edges)
                         THEN PruneFrom(rv_edges, RVNodes(rv_in.vehicles, rv_in.requests),
                                        1, top_k)
                         ELSE rv_edges
          /\ rv_in' = rv_in @@ [prune_edges |-> prune_edges, top_k |-> top_k,
                                   unpruned |-> rv_edges]
    /\ rv_pc' = "done"
    /\ UNCHANGED <<graph, mode, travel_vars, asg_vars, rv_i>>

NextRV == SkipFullVehicle \/ AddVREdges \/ AddRREdges \/ PruneAndReturn

SpecRV == InitRV /\ [][NextRV]_vars

(***************************************************************************)
(* Claims about the RV graph before pruning.                               *)
(***************************************************************************)
RVBuilt == mode = "rv" /\ rv_pc = "prune"

EdgesBetween(edges, a, b, type) ==
    {k \in 1..Len(edges) : {edges[k].u, edges[k].v} = {a, b} /\ edges[k].edge_type = type}

\* a vehicle without passengers at node q whose clock is t
EmptyVehicleAt(q, t) ==
    [id |-> "v0", q_v |-> q, t_v |-> t, passengers |-> 0, trip_set |-> <<>>]

\* C8: before pruning, a VR edge (v, r) exists exactly when v has passengers <
\* max_capacity and travel(v, [r]) is feasible; its travel_time is the cost travel
\* returned and its stops the sequence returned.
C8_VREdgesAreFeasibleSingles ==
    RVBuilt
    => \A i \in 1..Len(rv_in.vehicles), j \in 1..Len(rv_in.requests) :
          LET v == rv_in.vehicles[i]
              r == rv_in.requests[j]
              t == travel(v, <<r>>, ShortestPaths(graph), rv_in.max_capacity, rv_in.max_delay)
              es == EdgesBetween(rv_edges, v.id, r.id, "rv")
          IN IF v.passengers < rv_in.max_capacity /\ t.trip # None
             THEN /\ Cardinality(es) = 1
                  /\ \A k \in es : rv_edges[k].travel_time = t.cost /\ rv_edges[k].stops = t.trip
             ELSE es = {}

\* a vehicle with a passenger and spare capacity that can serve one request but not the other
C8_Witness ==
    /\ RVBuilt
    /\ rv_in.vehicles[1].passengers = 1
    /\ EdgesBetween(rv_edges, "v1", "r1", "rv") # {}
    /\ EdgesBetween(rv_edges, "v1", "r2", "rv") = {}

\* C9: the RR edge is necessary for pooling: whenever travel(v, [r1, r2]) is feasible
\* for some empty vehicle v whose clock is current_time, the RV graph before pruning has
\* the RR edge {r1, r2}.
C9_RREdgeNecessaryForPooling ==
    (RVBuilt /\ rv_in.max_capacity >= 2)
    => \A i \in 1..Len(rv_in.requests), j \in 1..Len(rv_in.requests), q \in Nodes :
          (i < j /\ travel(EmptyVehicleAt(q, rv_in.current_time),
                           <<rv_in.requests[i], rv_in.requests[j]>>, ShortestPaths(graph),
                           rv_in.max_capacity, rv_in.max_delay).trip # None)
          => EdgesBetween(rv_edges, rv_in.requests[i].id, rv_in.requests[j].id, "rr") # {}

\* the three composite trips of the pair (r1, r2), all starting with the pickup of r1
Composites(r1, r2) ==
    {<<Stop("pickup", r1), Stop("dropoff", r1), Stop("pickup", r2), Stop("dropoff", r2)>>,
     <<Stop("pickup", r1), Stop("pickup", r2), Stop("dropoff", r2), Stop("dropoff", r1)>>,
     <<Stop("pickup", r1), Stop("pickup", r2), Stop("dropoff", r1), Stop("dropoff", r2)>>}

\* a composite driven by an empty vehicle from r1's origin at current_time: every leg
\* reachable, every stop within its own request's deadline
CompositeFeasible(seq, d, current_time, max_delay) ==
    LET v == EmptyVehicleAt(seq[1].node, current_time)
    IN AllReachable(seq, d, v) /\ DeadlinesHold(seq, d, v, max_delay)

\* C10: the RR edge {r1, r2} is added exactly when one of the three composite trips,
\* timed with the shortest travel times between the stops actually visited, meets every
\* stop's own deadline; its weight is the shortest travel time between the origins.
C10_RREdgeIffCompositeFeasible ==
    RVBuilt
    => \A i \in 1..Len(rv_in.requests), j \in 1..Len(rv_in.requests) :
          i < j =>
          LET r1 == rv_in.requests[i]
              r2 == rv_in.requests[j]
              d == ShortestPaths(graph)
              es == EdgesBetween(rv_edges, r1.id, r2.id, "rr")
          IN IF \E seq \in Composites(r1, r2) :
                   CompositeFeasible(seq, d, rv_in.current_time, rv_in.max_delay)
             THEN /\ Cardinality(es) = 1
                  /\ \A k \in es : rv_edges[k].travel_time = d[<<r1.o_r, r2.o_r>>]
             ELSE es = {}

\* ---------------------------------------------------------------------------
\* Trip-vehicle assignment: optimizer/solver/problem_formulation.py
\* ---------------------------------------------------------------------------

MaxCost == 1
MaxPenalty == 1
NoEdge == -1
MIPGapPerMille == 1

VehicleIds == {"v1", "v2"}
RequestIds == {"r1", "r2"}

\* A trip node is identified by its "requests" attribute; its T-R edges go to
\* exactly these requests.  Trip nodes are inserted by increasing size.
TripOrder == << {"r1"}, {"r2"}, {"r1", "r2"} >>
Trips == {TripOrder[i] : i \in 1..Len(TripOrder)}

\* The RTV graph as the assignment stage reads it: the travel_time of every
\* T-V edge, NoEdge where the trip is not adjacent to the vehicle.
RTVGraphs == [Trips \X VehicleIds -> {NoEdge} \cup (0..MaxCost)]

\* the "requests" attribute of a trip node
requests_of(trip_id) == trip_id

\* the request nodes adjacent to a trip node: its T-R edges
request_neighbors(trip_id) == trip_id

InOrder(trip_set) == SelectSeq(TripOrder, LAMBDA T : T \in trip_set)

\* rtv_graph.neighbors(vehicle_id), in adjacency order
neighbors(g, vehicle_id) == InOrder({T \in Trips : g[<<T, vehicle_id>>] # NoEdge})

degree(g, vehicle_id) == Len(neighbors(g, vehicle_id))

EmptyDict == [x \in {} |-> {}]
NoSolution == [status |-> "NONE"]

RECURSIVE SumOver(_, _)
SumOver(S, f) ==
    IF S = {} THEN 0
    ELSE LET x == CHOOSE y \in S : TRUE IN f[x] + SumOver(S \ {x}, f)

\* ---- greedy_assignment ----

\* the orders in which a Python set of vehicle ids can be iterated
IterationOrders(S) ==
    {o \in [1..Cardinality(S) -> S] : \A i, j \in 1..Cardinality(S) : o[i] = o[j] => i = j}

\* the inner loop without the skip of trips that hold an assigned request
EligibleTripsNoSkip(g, vehicle_id, assigned) == neighbors(g, vehicle_id)

\* the trips of one vehicle the inner loop does not skip
EligibleTrips(g, vehicle_id, assigned) ==
    SelectSeq(neighbors(g, vehicle_id), LAMBDA T : requests_of(T) \cap assigned = {})

\* the (vehicle, trip) pairs in the order the two nested loops visit them
RECURSIVE Candidates(_, _, _)
Candidates(g, vehicle_order, assigned) ==
    IF vehicle_order = <<>> THEN <<>>
    ELSE LET vehicle_id == Head(vehicle_order)
             trips == EligibleTrips(g, vehicle_id, assigned)
         IN  [i \in 1..Len(trips) |-> <<vehicle_id, trips[i]>>]
                 \o Candidates(g, Tail(vehicle_order), assigned)

\* the comparison on the cost alone, not divided by the number of requests
AbsoluteCostLess(g, a, b) == g[<<a[2], a[1]>>] < g[<<b[2], b[1]>>]

\* cost / number_of_trips of pair a is less than that of pair b
RelativeCostLess(g, a, b) ==
    g[<<a[2], a[1]>>] * Cardinality(requests_of(b[2]))
        < g[<<b[2], b[1]>>] * Cardinality(requests_of(a[2]))

\* a scan that passes over the pairs of cost 0
BestPairNonzero(g, cands) ==
    LET taken == SelectSeq(cands, LAMBDA c : g[<<c[2], c[1]>>] # 0)
    IN  IF taken = <<>> THEN None
        ELSE taken[CHOOSE j \in 1..Len(taken) :
                      /\ \A k \in 1..Len(taken) : ~RelativeCostLess(g, taken[k], taken[j])
                      /\ \A k \in 1..(j - 1) : RelativeCostLess(g, taken[j], taken[k])]

\* best_vehicle, best_trip after the scan: the first pair of least relative cost
BestPair(g, cands) ==
    IF cands = <<>> THEN None
    ELSE cands[CHOOSE j \in 1..Len(cands) :
                  /\ \A k \in 1..Len(cands) : ~RelativeCostLess(g, cands[k], cands[j])
                  /\ \A k \in 1..(j - 1) : RelativeCostLess(g, cands[j], cands[k])]

InitAssign ==
    /\ graph = [e \in Edges |-> 0]
    /\ mode = "assign"
    /\ tcall = NoCall
    /\ tresult = NoCall
    /\ rv_in = NoCall
    /\ rv_edges = <<>>
    /\ rv_pc = "idle"
    /\ rv_i = 0
    /\ rtv \in RTVGraphs
    /\ cost_penalty \in 0..MaxPenalty
    /\ assignment = EmptyDict
    /\ unassigned_vehicles = {v \in VehicleIds : degree(rtv, v) > 0}
    /\ assigned_requests = {}
    /\ asg_pc = "greedy"
    /\ solution = NoSolution
    /\ optimal_assignment = EmptyDict
    /\ iterations = 0

\* one iteration of the while loop that finds a best pair
GreedyAssign ==
    /\ mode = "assign" /\ asg_pc = "greedy"
    /\ unassigned_vehicles # {}
    /\ \E vehicle_order \in IterationOrders(unassigned_vehicles) :
          LET best == BestPair(rtv, Candidates(rtv, vehicle_order, assigned_requests))
          IN  /\ best # None
              /\ assignment' = [v \in DOMAIN assignment \cup {best[1]} |->
                                   IF v = best[1] THEN best[2] ELSE assignment[v]]
              /\ unassigned_vehicles' = unassigned_vehicles \ {best[1]}
              /\ assigned_requests' = assigned_requests \cup request_neighbors(best[2])
    /\ iterations' = iterations + 1
    /\ UNCHANGED <<graph, mode, travel_vars, rv_vars, rtv, cost_penalty, asg_pc,
                   solution, optimal_assignment>>

\* an iteration that finds no pair: break, return assignment
GreedyBreak ==
    /\ mode = "assign" /\ asg_pc = "greedy"
    /\ unassigned_vehicles # {}
    /\ \E vehicle_order \in IterationOrders(unassigned_vehicles) :
          BestPair(rtv, Candidates(rtv, vehicle_order, assigned_requests)) = None
    /\ iterations' = iterations + 1
    /\ asg_pc' = "ilp"
    /\ UNCHANGED <<graph, mode, travel_vars, rv_vars, rtv, cost_penalty, assignment,
                   unassigned_vehicles, assigned_requests, solution, optimal_assignment>>

\* the while condition fails: return assignment
GreedyExhausted ==
    /\ mode = "assign" /\ asg_pc = "greedy"
    /\ unassigned_vehicles = {}
    /\ asg_pc' = "ilp"
    /\ UNCHANGED <<graph, mode, travel_vars, rv_vars, rtv, cost_penalty, assignment,
                   unassigned_vehicles, assigned_requests, solution, optimal_assignment,
                   iterations>>

\* greedy_assignment on its own: the call runs its while loop until it returns
InitGreedy == InitAssign /\ cost_penalty = 0

NextGreedy == GreedyAssign \/ GreedyBreak \/ GreedyExhausted

\* the loop is sequential code: as long as a step of it is possible, one is taken
SpecGreedy == InitGreedy /\ [][NextGreedy]_vars /\ WF_vars(NextGreedy)

\* ---- assignment_ilp ----

\* the keys of epsilon: one binary variable per T-V edge
EpsilonKeys(g) == {e \in Trips \X VehicleIds : g[e] # NoEdge}

\* A value of the variables: the keys whose epsilon is 1 and the requests
\* whose chi is 1.
Valuations(g) == [epsilon : SUBSET EpsilonKeys(g), chi : SUBSET RequestIds]

Objective(g, penalty, val) ==
    SumOver(val.epsilon, g) + penalty * Cardinality(val.chi)

VehicleConstraintDropped(g, val, vehicle_id) == TRUE

VehicleConstraint(g, val, vehicle_id) ==
    Cardinality({e \in val.epsilon : e[2] = vehicle_id}) <= 1

RelevantEdges(g, request_id) == {e \in EpsilonKeys(g) : request_id \in requests_of(e[1])}

RequestConstraintAtMost(g, val, request_id) ==
    Cardinality(val.epsilon \cap RelevantEdges(g, request_id))
        + (IF request_id \in val.chi THEN 1 ELSE 0) <= 1

RequestConstraint(g, val, request_id) ==
    Cardinality(val.epsilon \cap RelevantEdges(g, request_id))
        + (IF request_id \in val.chi THEN 1 ELSE 0) = 1

Feasible(g) ==
    {val \in Valuations(g) :
        /\ \A vehicle_id \in VehicleIds : VehicleConstraint(g, val, vehicle_id)
        /\ \A request_id \in RequestIds : RequestConstraint(g, val, request_id)}

MipStartUnset(g, greedy) == {}

\* the variables given a start value of 1
MipStart(g, greedy) ==
    {e \in EpsilonKeys(g) : e[2] \in DOMAIN greedy /\ greedy[e[2]] = e[1]}

\* A start that extends to a feasible valuation becomes an incumbent, so no
\* later incumbent costs more than it; a start that extends to none is dropped.
NoWorseThanStart(g, penalty, val, start, feasible) ==
    LET completions == {c \in feasible : start \subseteq c.epsilon}
    IN  \/ completions = {}
        \/ \E c \in completions : Objective(g, penalty, val) <= Objective(g, penalty, c)

\* a solver that accepts any gap
WithinAnyGap(g, penalty, val, feasible) == TRUE

\* the relative gap to the optimum is within MIPGap
WithinGap(g, penalty, val, feasible) ==
    \A other \in feasible :
        (Objective(g, penalty, val) - Objective(g, penalty, other)) * 1000
            <= MIPGapPerMille * Objective(g, penalty, val)

\* the loop over epsilon writes optimal_assignment[vehicle] = trip, a later
\* key of the same vehicle overwriting an earlier one
ExtractAssignment(val) ==
    [v \in {e[2] : e \in val.epsilon} |->
        LET mine == InOrder({e[1] : e \in {x \in val.epsilon : x[2] = v}})
        IN  mine[Len(mine)]]

\* model.optimize() ends with status OPTIMAL
SolveToOptimal ==
    /\ mode = "assign" /\ asg_pc = "ilp"
    /\ LET feasible == Feasible(rtv) IN \E val \in feasible :
          /\ WithinGap(rtv, cost_penalty, val, feasible)
          /\ NoWorseThanStart(rtv, cost_penalty, val, MipStart(rtv, assignment), feasible)
          /\ solution' = [status |-> "OPTIMAL", epsilon |-> val.epsilon, chi |-> val.chi]
          /\ optimal_assignment' = ExtractAssignment(val)
    /\ asg_pc' = "done"
    /\ UNCHANGED <<graph, mode, travel_vars, rv_vars, rtv, cost_penalty, assignment,
                   unassigned_vehicles, assigned_requests, iterations>>

\* model.optimize() stops at TimeLimit holding an incumbent
SolveToTimeLimit ==
    /\ mode = "assign" /\ asg_pc = "ilp"
    /\ LET feasible == Feasible(rtv) IN \E val \in feasible :
          /\ NoWorseThanStart(rtv, cost_penalty, val, MipStart(rtv, assignment), feasible)
          /\ solution' = [status |-> "TIME_LIMIT", epsilon |-> val.epsilon, chi |-> val.chi]
          /\ optimal_assignment' = ExtractAssignment(val)
    /\ asg_pc' = "done"
    /\ UNCHANGED <<graph, mode, travel_vars, rv_vars, rtv, cost_penalty, assignment,
                   unassigned_vehicles, assigned_requests, iterations>>

\* model.optimize() stops at TimeLimit before any solution is found: reading
\* epsilon[edge].x raises, or nothing is read when epsilon is empty
SolveNoIncumbent ==
    /\ mode = "assign" /\ asg_pc = "ilp"
    /\ solution' = [status |-> "TIME_LIMIT_NO_SOLUTION"]
    /\ asg_pc' = IF EpsilonKeys(rtv) = {} THEN "done" ELSE "raised"
    /\ UNCHANGED <<graph, mode, travel_vars, rv_vars, rtv, cost_penalty, assignment,
                   unassigned_vehicles, assigned_requests, optimal_assignment,
                   iterations>>

NextAssign ==
    \/ GreedyAssign \/ GreedyBreak \/ GreedyExhausted
    \/ SolveToOptimal \/ SolveToTimeLimit \/ SolveNoIncumbent

SpecAssign == InitAssign /\ [][NextAssign]_vars

\* ---- claims about the assignment ----

IlpReturned == mode = "assign" /\ asg_pc = "done" /\ solution.status # "TIME_LIMIT_NO_SOLUTION"

\* the pairs of an assignment dict, as (trip, vehicle)
PairsOf(dict) == {<<dict[v], v>> : v \in DOMAIN dict}

\* requests that belong to no trip of the assignment
UnservedBy(dict) == {r \in RequestIds : \A v \in DOMAIN dict : r \notin dict[v]}

\* sum of the T-V edge costs of the assigned pairs plus P per unserved request
AssignmentObjective(dict) ==
    SumOver(PairsOf(dict), rtv) + cost_penalty * Cardinality(UnservedBy(dict))

\* C5: the assignment returned by assignment_ilp gives each vehicle at most
\* one trip (the solution selects at most one pair per vehicle and the
\* returned dict holds exactly the selected pairs), every assigned pair is a
\* T-V edge of the RTV graph, and trips of different vehicles share no request.
C5_IlpAssignmentWellFormed ==
    IlpReturned =>
        /\ \A v \in VehicleIds : Cardinality({e \in solution.epsilon : e[2] = v}) <= 1
        /\ PairsOf(optimal_assignment) = solution.epsilon
        /\ \A v \in DOMAIN optimal_assignment : rtv[<<optimal_assignment[v], v>>] # NoEdge
        /\ \A v, w \in DOMAIN optimal_assignment :
              v # w => optimal_assignment[v] \cap optimal_assignment[w] = {}

\* two vehicles each get a trip although one of them could also serve the
\* other's request
C5_Witness ==
    /\ IlpReturned
    /\ DOMAIN optimal_assignment = VehicleIds
    /\ \E v \in VehicleIds : rtv[<<{"r1", "r2"}, v>>] # NoEdge

\* C6: in every solution the result is built from, each request is either in
\* the trip of exactly one selected pair with chi = 0, or in the trip of no
\* selected pair with chi = 1; a request in no trip of the graph has chi = 1.
C6_RequestServedXorUnserved ==
    IlpReturned =>
        \A r \in RequestIds :
            LET selected == {e \in solution.epsilon : r \in e[1]}
            IN  /\ \/ Cardinality(selected) = 1 /\ r \notin solution.chi
                   \/ selected = {} /\ r \in solution.chi
                /\ (\A T \in Trips, v \in VehicleIds : r \in T => rtv[<<T, v>>] = NoEdge)
                       => r \in solution.chi

\* one request is served while the other is in no trip of the graph
C6_Witness ==
    /\ IlpReturned
    /\ \E r \in RequestIds :
          /\ \A T \in Trips, v \in VehicleIds : r \in T => rtv[<<T, v>>] = NoEdge
          /\ r \in solution.chi
    /\ \E r \in RequestIds : r \notin solution.chi

\* the greedy dict, read as a valuation, satisfies both ILP constraints
GreedySeedFeasible ==
    /\ \A v \in DOMAIN assignment : rtv[<<assignment[v], v>>] # NoEdge
    /\ \A v, w \in DOMAIN assignment : v # w => assignment[v] \cap assignment[w] = {}

\* C7: the objective of the assignment assignment_ilp returns is at most the
\* objective of the assignment greedy_assignment returned for the same graph
\* and penalty, and the greedy assignment satisfies both ILP constraints.
C7_IlpNoWorseThanGreedy ==
    /\ (mode = "assign" /\ asg_pc \in {"ilp", "done", "raised"}) => GreedySeedFeasible
    /\ IlpReturned =>
          AssignmentObjective(optimal_assignment) <= AssignmentObjective(assignment)

\* the solver stopped at the time limit, and what it returns is strictly
\* better than a non-empty greedy assignment
C7_Witness ==
    /\ IlpReturned
    /\ solution.status = "TIME_LIMIT"
    /\ assignment # EmptyDict
    /\ AssignmentObjective(optimal_assignment) < AssignmentObjective(assignment)

\* ---------------------------------------------------------------------------
\* Pruning of the RV graph: generate_rv_graph, lines 26-62 and 155-159
\* ---------------------------------------------------------------------------

\* the VR edges the loop of lines 76-93 adds, vehicle by vehicle
RECURSIVE VRLoop(_, _, _, _, _)
VRLoop(vehicles, requests, d, max_capacity, max_delay) ==
    IF vehicles = <<>> THEN <<>>
    ELSE (IF Head(vehicles).passengers >= max_capacity THEN <<>>
          ELSE VREdgesOf(Head(vehicles), requests, d, max_capacity, max_delay))
         \o VRLoop(Tail(vehicles), requests, d, max_capacity, max_delay)

\* the edges of rv_graph when line 155 is reached
ConstructedEdges(in, d) ==
    VRLoop(in.vehicles, in.requests, d, in.max_capacity, in.max_delay)
        \o RREdges(in.requests, d, in.current_time, in.max_delay)

RVReturned == mode = "rv" /\ rv_pc = "done"

\* C11: a call with prune_edges = False returns every VR and RR edge the
\* construction added; edges are removed only when prune_edges = True.
C11_NoPruningUnlessAsked ==
    (RVReturned /\ ~rv_in.prune_edges) => rv_edges = rv_in.unpruned

\* the batches the pruning is checked on: one empty vehicle and three requests
PruneInputs(d) ==
    UNION {{[made |-> TRUE, vehicles |-> <<vehicle>>, requests |-> <<x[1], x[2], x[3]>>,
             current_time |-> 0, max_capacity |-> MAX_CAPACITY, max_delay |-> max_delay] :
               vehicle \in {v \in Vehicles(d, "v1", {1}, omega) : v.passengers = 0},
               x \in NewRequests(d, "r1", omega) \X NewRequests(d, "r2", omega)
                        \X NewRequests(d, "r3", omega),
               max_delay \in 0..MaxDelay} :
           omega \in 0..MaxOmega}

\* generate_rv_graph has run up to line 155
InitPrune ==
    /\ graph \in RoadGraphs
    /\ mode = "rv"
    /\ tcall = NoCall
    /\ tresult = INFEASIBLE
    /\ rv_in \in PruneInputs(ShortestPaths(graph))
    /\ rv_edges = ConstructedEdges(rv_in, ShortestPaths(graph))
    /\ rv_pc = "prune"
    /\ rv_i = Len(rv_in.vehicles) + 1
    /\ rtv = <<>>
    /\ cost_penalty = 0
    /\ assignment = <<>>
    /\ unassigned_vehicles = {}
    /\ assigned_requests = {}
    /\ asg_pc = "idle"
    /\ solution = <<>>
    /\ optimal_assignment = <<>>
    /\ iterations = 0

NextPrune == PruneAndReturn

SpecPrune == InitPrune /\ [][NextPrune]_vars

\* ---- claims about pruning ----

EdgeSet(edges) == {edges[k] : k \in 1..Len(edges)}

\* the edges of a node's own kind: RR for a request node, VR for a vehicle node
OwnKind(edge_set, node) ==
    {e \in edge_set : /\ node.id \in {e.u, e.v}
                      /\ e.edge_type = IF node.is_request THEN "rr" ELSE "rv"}

\* kept is a choice of the K smallest-weight edges of had (all when at most K)
KSmallest(kept, had, K) ==
    /\ kept \subseteq had
    /\ Cardinality(kept) = IF Cardinality(had) <= K THEN Cardinality(had) ELSE K
    /\ \A e \in kept, f \in had \ kept : e.travel_time <= f.travel_time

ScenarioTimes == {60, 90}

ScenarioGraphs == [Edges -> {0} \cup ScenarioTimes]

\* nodes A = 1, B = 2, C = 3 with A-B = 60, B-C = 60, A-C = 90
Triangle ==
    [e \in Edges |-> IF e \in {<<1, 3>>, <<3, 1>>} THEN 90 ELSE 60]

\* the two requests of the pooling scenario: A to B and A to C, omega = 300
PoolRequests(d) ==
    << [id |-> "r1", o_r |-> 1, d_r |-> 2, t_pl |-> 0 + 300, t_star |-> 0 + d[<<1, 2>>]],
       [id |-> "r2", o_r |-> 1, d_r |-> 3, t_pl |-> 0 + 300, t_star |-> 0 + d[<<1, 3>>]] >>

\* the passenger of the onboard scenario, A to B
PassengerRequest(d) ==
    [id |-> "r0", o_r |-> 1, d_r |-> 2, t_pl |-> 0, t_star |-> d[<<1, 2>>]]

\* a new request offered to it, omega = 500; the scenario's goes from B to C
FollowUpRequest(d, o_r, d_r) ==
    [id |-> "r1", o_r |-> o_r, d_r |-> d_r, t_pl |-> 0 + 500, t_star |-> 0 + d[<<o_r, d_r>>]]

InitScenario ==
    /\ graph \in ScenarioGraphs
    /\ mode = "scenario"
    /\ tcall = NoCall
    /\ tresult = NoCall
    /\ rv_in = NoCall
    /\ rv_edges = <<>>
    /\ rv_pc = "idle"
    /\ rv_i = 0
    /\ rtv = <<>>
    /\ cost_penalty = 0
    /\ assignment = <<>>
    /\ unassigned_vehicles = {}
    /\ assigned_requests = {}
    /\ asg_pc = "idle"
    /\ solution = <<>>
    /\ optimal_assignment = <<>>
    /\ iterations = 0

\* travel for an empty vehicle at A and the two pooling requests, max_delay = 300
TravelPoolTwo ==
    /\ mode = "scenario"
    /\ ~tcall.made
    /\ LET d == ShortestPaths(graph)
           vehicle == [id |-> "v1", q_v |-> 1, t_v |-> 0, passengers |-> 0,
                       trip_set |-> <<>>]
       IN  /\ d[<<1, 2>>] # NoPath /\ d[<<1, 3>>] # NoPath
           /\ \E max_capacity \in 1..MAX_CAPACITY :
                 /\ tcall' = [made |-> TRUE, scenario |-> "pool", vehicle |-> vehicle,
                              new_requests |-> PoolRequests(d),
                              max_capacity |-> max_capacity, max_delay |-> 300]
                 /\ tresult' = travel(vehicle, PoolRequests(d), d, max_capacity, 300)
    /\ UNCHANGED <<graph, mode, rv_vars, asg_vars>>

\* travel for a vehicle at A that carries one passenger to B and is offered a
\* new request, max_delay = 60
TravelOnboardFirst ==
    /\ mode = "scenario"
    /\ ~tcall.made
    /\ LET d == ShortestPaths(graph)
           vehicle == [id |-> "v1", q_v |-> 1, t_v |-> 0, passengers |-> 1,
                       trip_set |-> <<PassengerRequest(d)>>]
       IN  /\ d[<<1, 2>>] # NoPath
           /\ \E max_capacity \in 1..MAX_CAPACITY :
              \E p \in {x \in Nodes \X Nodes : x[1] # x[2] /\ d[x] # NoPath} :
                 /\ tcall' = [made |-> TRUE, scenario |-> "onboard", vehicle |-> vehicle,
                              new_requests |-> <<FollowUpRequest(d, p[1], p[2])>>,
                              max_capacity |-> max_capacity, max_delay |-> 60]
                 /\ tresult' = travel(vehicle, <<FollowUpRequest(d, p[1], p[2])>>, d,
                                      max_capacity, 60)
    /\ UNCHANGED <<graph, mode, rv_vars, asg_vars>>

NextScenario == TravelPoolTwo \/ TravelOnboardFirst

SpecScenario == InitScenario /\ [][NextScenario]_vars

\* ---- claims about the onboard-first rule ----

\* the number of drop-offs before the first pickup of seq
DropsBeforeFirstPickup(seq) ==
    LET pickups == {i \in 1..Len(seq) : seq[i].type = "pickup"}
    IN  IF pickups = {} THEN Len(seq)
        ELSE CountType(seq, SetMin(pickups), "dropoff")

\* max(0, |N| - capacity + |O|)
MinDropsFirst(call) ==
    Max(0, Len(call.new_requests) - call.max_capacity + Len(call.vehicle.trip_set))

OnboardFirstSequence(d) ==
    << Stop("dropoff", PassengerRequest(d)), Stop("pickup", FollowUpRequest(d, 2, 3)),
       Stop("dropoff", FollowUpRequest(d, 2, 3)) >>

\* the call of scenario S4: the triangle, capacity 1, new request B to C
OnboardScenarioCalled ==
    /\ tcall.made
    /\ graph = Triangle
    /\ tcall.scenario = "onboard"
    /\ tcall.max_capacity = 1
    /\ tcall.new_requests = <<FollowUpRequest(ShortestPaths(graph), 2, 3)>>

C14_NoNewRequests ==
    (mode = "travel" /\ tcall.made /\ tcall.new_requests = <<>>) =>
        IF tcall.vehicle.trip_set = <<>>
        THEN tresult = INFEASIBLE
        ELSE tresult = [trip |-> tcall.vehicle.trip_set, cost |-> 0]

\* the existing plan came back with cost 0 although its passenger cannot be
\* dropped off by the deadline
C14_Witness ==
    /\ mode = "travel" /\ tcall.made /\ tcall.new_requests = <<>>
    /\ tcall.vehicle.trip_set # <<>>
    /\ tresult.cost = 0
    /\ LET r == tcall.vehicle.trip_set[1]
           leg == ShortestPaths(graph)[<<tcall.vehicle.q_v, r.d_r>>]
       IN  tcall.vehicle.t_v + leg > r.t_star + tcall.max_delay

\* ---- claims about the solver's outcomes ----

\* C15: whatever the outcome of the solve, assignment_ilp returns: the
\* incumbent when the solver has one, the greedy seed when it stopped at the
\* time limit without one; it never raises and what it returns satisfies the
\* vehicle and the request constraints.
C15_TimeLimitReturnsAValue ==
    mode = "assign" =>
        /\ asg_pc # "raised"
        /\ (asg_pc = "done" /\ solution.status = "TIME_LIMIT_NO_SOLUTION")
              => optimal_assignment = assignment
        /\ asg_pc = "done" =>
              /\ \A v \in DOMAIN optimal_assignment :
                    rtv[<<optimal_assignment[v], v>>] # NoEdge
              /\ \A v, w \in DOMAIN optimal_assignment :
                    v # w => optimal_assignment[v] \cap optimal_assignment[w] = {}

\* ---- claims about greedy_assignment ----

GreedyReturned == mode = "assign" /\ asg_pc \in {"ilp", "done", "raised"}

\* the vehicles of a set in the order of the vehicle list
InListOrder(vehicle_set) == SelectSeq(<<"v1", "v2">>, LAMBDA v : v \in vehicle_set)

\* the mapping greedy_assignment returns when every scan visits the
\* unassigned vehicles in the order of the vehicle list
RECURSIVE GreedyInListOrder(_, _, _, _)
GreedyInListOrder(g, unassigned, assigned, dict) ==
    IF unassigned = {} THEN dict
    ELSE LET best == BestPair(g, Candidates(g, InListOrder(unassigned), assigned))
         IN  IF best = None THEN dict
             ELSE GreedyInListOrder(g, unassigned \ {best[1]},
                                    assigned \cup request_neighbors(best[2]),
                                    [v \in DOMAIN dict \cup {best[1]} |->
                                        IF v = best[1] THEN best[2] ELSE dict[v]])

\* C16: greedy_assignment is a function of the RTV graph and the vehicle
\* list: whatever order the set of unassigned vehicles is iterated in, also
\* when pairs tie on relative cost, it returns the mapping it returns when
\* the set is iterated in the order of the vehicle list.
C16_GreedyDeterministic ==
    GreedyReturned =>
        assignment = GreedyInListOrder(rtv, {v \in VehicleIds : degree(rtv, v) > 0},
                                       {}, EmptyDict)

\* ---- claims about the penalty ----

\* the T-V edges whose trip contains request r
EdgesServing(r) == {e \in Trips \X VehicleIds : rtv[e] # NoEdge /\ r \in e[1]}

\* C17 as stated: a request whose only feasible trip costs more than the
\* penalty P is left unserved by the assignment assignment_ilp returns, and
\* the vehicle of that trip gets no trip.
C17_PenaltyDominates ==
    IlpReturned =>
        \A r \in RequestIds, e \in Trips \X VehicleIds :
            (EdgesServing(r) = {e} /\ rtv[e] > cost_penalty) =>
                /\ r \in solution.chi
                /\ e[2] \notin DOMAIN optimal_assignment

\* C17 amended: when the solve ends with status OPTIMAL, a request whose only
\* feasible trip is the single-request trip {r}, at a cost that exceeds the
\* penalty P by more than the MIPGap share of the returned objective, is left
\* unserved (chi = 1, the pair not selected), even though the greedy seed
\* assigns that trip.
C17_PenaltyDominatesAtOptimum ==
    (IlpReturned /\ solution.status = "OPTIMAL") =>
        \A r \in RequestIds, v \in VehicleIds :
            (/\ EdgesServing(r) = {<<{r}, v>>}
             /\ (rtv[<<{r}, v>>] - cost_penalty) * 1000
                    > MIPGapPerMille * AssignmentObjective(optimal_assignment)) =>
                /\ r \in solution.chi
                /\ <<{r}, v>> \notin solution.epsilon

\* the greedy seed serves a request whose only trip costs more than the
\* penalty, and the optimal solution leaves it unserved
C17_Witness ==
    /\ IlpReturned
    /\ solution.status = "OPTIMAL"
    /\ \E r \in RequestIds, v \in VehicleIds :
          /\ EdgesServing(r) = {<<{r}, v>>}
          /\ rtv[<<{r}, v>>] > cost_penalty
          /\ v \in DOMAIN assignment /\ assignment[v] = {r}
          /\ r \in solution.chi

\* ---- claims about the pooling scenario ----

\* the call of scenario S2: the triangle, an empty vehicle at A, capacity 2
PoolScenarioCalled ==
    /\ tcall.made
    /\ graph = Triangle
    /\ tcall.scenario = "pool"
    /\ tcall.max_capacity = 2

\* both pickups at A, then the drop-off at B, then the drop-off at C
PoolSequence(d) ==
    << Stop("pickup", PoolRequests(d)[1]), Stop("pickup", PoolRequests(d)[2]),
       Stop("dropoff", PoolRequests(d)[1]), Stop("dropoff", PoolRequests(d)[2]) >>

\* C18 as stated: in scenario S2 travel returns the sequence that picks up
\* r1 and r2 at A, drops r1 at B, then drops r2 at C, with cost 150.
C18_PoolTwoCost150 ==
    PoolScenarioCalled =>
        /\ tresult.trip = PoolSequence(ShortestPaths(graph))
        /\ tresult.cost = 150

\* C18 amended: in scenario S2 travel returns the sequence that picks up r1
\* and r2 at A, drops r1 at B, then drops r2 at C, and the cost it returns is
\* the sum of the travel times of the legs, 0 + 0 + 60 + 60 = 120.
C18_PoolTwoCost120 ==
    PoolScenarioCalled =>
        /\ tresult.trip = PoolSequence(ShortestPaths(graph))
        /\ tresult.cost = 0 + 0 + 60 + 60

\* scenario S2 has returned a sequence of four stops
C18_Witness ==
    /\ PoolScenarioCalled
    /\ tresult # INFEASIBLE
    /\ Len(tresult.trip) = 4

\* ---- claims about the greedy loop ----

\* greedy_assignment is in its while loop or has returned
GreedyRunning == mode = "assign" /\ asg_pc # "idle"

\* C19: at every iteration of the greedy_assignment loop the partial result is
\* a feasible assignment: a vehicle has at most one trip, every assigned pair
\* is a T-V edge of the RTV graph, no two assigned trips share a request,
\* assigned_requests is the union of the requests of the assigned trips, and
\* no assigned vehicle is in unassigned_vehicles.
C19_GreedyPartialFeasible ==
    GreedyRunning =>
        /\ DOMAIN assignment \subseteq VehicleIds
        /\ \A v \in DOMAIN assignment :
              /\ assignment[v] \in Trips
              /\ rtv[<<assignment[v], v>>] # NoEdge
        /\ \A v, w \in DOMAIN assignment :
              v # w => requests_of(assignment[v]) \cap requests_of(assignment[w]) = {}
        /\ assigned_requests = UNION {requests_of(assignment[v]) : v \in DOMAIN assignment}
        /\ DOMAIN assignment \cap unassigned_vehicles = {}

\* the loop has assigned both vehicles, and the second one had an edge to a
\* trip that shares a request with the trip assigned first
C19_Witness ==
    /\ mode = "assign" /\ asg_pc = "greedy"
    /\ DOMAIN assignment = VehicleIds
    /\ \E v \in VehicleIds, T \in Trips :
          /\ rtv[<<T, v>>] # NoEdge
          /\ \E w \in VehicleIds \ {v} : requests_of(T) \cap requests_of(assignment[w]) # {}

\* ---- claims about the greedy choice ----

\* the pairs an iteration may choose from: the vehicle is still unassigned, the
\* trip is adjacent to it, and no request of the trip is served yet
EligiblePairs ==
    {p \in VehicleIds \X Trips :
        /\ p[1] \in unassigned_vehicles
        /\ rtv[<<p[2], p[1]>>] # NoEdge
        /\ requests_of(p[2]) \cap assigned_requests = {}}

\* cost(T, v) / |T| of pair a is at most that of pair b
RelativeCostAtMost(a, b) ==
    rtv[<<a[2], a[1]>>] * Cardinality(requests_of(b[2]))
        <= rtv[<<b[2], b[1]>>] * Cardinality(requests_of(a[2]))

\* an iteration of the loop assigns the pair p
Assigns(p) ==
    /\ p[1] \notin DOMAIN assignment
    /\ DOMAIN assignment' = DOMAIN assignment \cup {p[1]}
    /\ assignment'[p[1]] = p[2]

\* the only T-V edges are those of the two vehicles to the one trip {r}
Competing(r) ==
    /\ \A v \in VehicleIds : rtv[<<{r}, v>>] # NoEdge
    /\ \A T \in Trips \ {{r}}, v \in VehicleIds : rtv[<<T, v>>] = NoEdge

\* C20: each iteration of greedy_assignment assigns an eligible pair (v, T)
\* whose relative cost cost(T, v) / |T| is the minimum over the eligible pairs
\* of that iteration; when two vehicles compete for one single-request trip
\* the vehicle with the lower cost is assigned and the other is not.
C20_GreedyPicksMinRelativeCost ==
    [][(mode = "assign" /\ asg_pc = "greedy" /\ assignment' # assignment) =>
          /\ \E p \in EligiblePairs :
                /\ Assigns(p)
                /\ \A q \in EligiblePairs : RelativeCostAtMost(p, q)
          /\ \A r \in RequestIds, v, w \in VehicleIds :
                (Competing(r) /\ rtv[<<{r}, v>>] < rtv[<<{r}, w>>]) =>
                    /\ assignment' = [x \in {v} |-> {r}]
                    /\ w \notin DOMAIN assignment']_vars

\* two vehicles competed for one single-request trip at different costs and
\* the loop has assigned it
C20_Witness ==
    /\ GreedyReturned
    /\ \E r \in RequestIds :
          /\ Competing(r)
          /\ rtv[<<{r}, "v1">>] # rtv[<<{r}, "v2">>]
          /\ Cardinality(DOMAIN assignment) = 1

\* ---- claims about the end of the greedy loop ----

\* the requests of the trips assigned so far
ServedRequests == UNION {requests_of(assignment[v]) : v \in DOMAIN assignment}

\* a vehicle without an assignment is adjacent to a trip all of whose requests
\* are unserved
EligiblePairLeft ==
    \E v \in VehicleIds \ DOMAIN assignment, T \in Trips :
        /\ rtv[<<T, v>>] # NoEdge
        /\ requests_of(T) \cap ServedRequests = {}

\* C21: greedy_assignment always terminates, after at most one iteration per
\* vehicle plus one, and when it stops no eligible pair is left: no vehicle
\* without an assignment is adjacent to a trip whose requests are all unserved.
C21_GreedyTerminates ==
    /\ <>GreedyReturned
    /\ [](GreedyRunning => iterations <= Cardinality(VehicleIds) + 1)
    /\ [](GreedyReturned => ~EligiblePairLeft)

\* the loop has stopped on its break with a vehicle left that has trips, all
\* of them holding a served request
C21_Witness ==
    /\ GreedyReturned
    /\ iterations = 2
    /\ unassigned_vehicles # {}
    /\ \E v \in unassigned_vehicles : degree(rtv, v) > 0

\* ---- claims about the order of the request list ----

\* the list with its requests in the opposite order
Reversed(requests) == [k \in 1..Len(requests) |-> requests[Len(requests) + 1 - k]]

\* C22: the RR edges generate_rv_graph builds do not depend on the order of
\* the requests in the list: the edge {a, b} is present for the list
\* [a, b] exactly when it is present for the list [b, a].
C22_RREdgesOrderIndependent ==
    RVBuilt =>
        LET a == rv_in.requests[1].id
            b == rv_in.requests[2].id
            swapped == RREdges(Reversed(rv_in.requests), ShortestPaths(graph),
                               rv_in.current_time, rv_in.max_delay)
        IN  (EdgesBetween(rv_edges, a, b, "rr") # {})
                <=> (EdgesBetween(swapped, a, b, "rr") # {})

====
